---- MODULE Spec2Model ----
(***************************************************************************)
(* AssetManager<Key, Asset> of bevy-asset-manager (src/src/lib.rs): a map  *)
(* from keys to AssetHandle entries behind one RwLock, and the AssetServer *)
(* that turns a path into a Handle.  Every method takes the write lock,    *)
(* works on the map item by item, and drops the guard when it returns.     *)
(***************************************************************************)
EXTENDS Integers, Sequences, FiniteSets, TLC

\* ------------------------------------------------------------------ bounds
MaxPairs == 2      \* longest slice of (key, path) pairs handed to insert_many*
MaxKeys  == 3      \* longest slice of keys handed to load_many / get_many
MaxLoads == 2      \* AssetServer::load requests in one run

Threads == {"t1", "t2"}
Keys    == {"k1", "k2", "k3"}
InsertKeys == {"k1", "k2"}     \* the keys the run registers; "k3" never is
Paths   == {"pA", "pB"}
NoThread == "none"

VARIABLES
    assets,   \* AssetManager.assets: Key -> AssetHandle (or no entry)
    loads,    \* the paths AssetServer::load was called with, in call order
    lock,     \* holder of the RwLock write guard, or NoThread
    pc,       \* per thread: "idle", "wait" (blocked in write()), "held"
    op,       \* per thread: the method it is in and its arguments
    idx,      \* per thread: items of its slice already processed
    ret,      \* per thread: the handles its get / get_many has produced
    seen,     \* per thread: the entry get_mut(key) found for the current item
    reg,      \* history: per key, its latest registration and the loads made for it
    poisoned, \* the RwLock's poison flag: a thread panicked while holding the guard
    built     \* mixed_asset_manager!: how far its body has run, and its tagged pairs

vars == <<assets, loads, lock, pc, op, idx, ret, seen, reg, poisoned, built>>

\* ------------------------------------------------------- data (lib.rs 225)
NoEntry == [tag |-> "None", path |-> "-", id |-> 0, strong |-> FALSE]
\* AssetHandle::Lazy(path)
Lazy(path) == [tag |-> "Lazy", path |-> path, id |-> 0, strong |-> FALSE]
\* AssetHandle::Loaded(handle)
Loaded(h) == [tag |-> "Loaded", path |-> "-", id |-> h.id, strong |-> h.strong]
\* the Handle stored in a Loaded entry
HandleOf(e) == [id |-> e.id, strong |-> e.strong]
\* Handle::clone_weak: same asset, no ownership
clone_weak(h) == [id |-> h.id, strong |-> FALSE]
\* AssetServer::load(path): logs the request, returns a strong handle to it
ServerLoad(ls, path) == [loads |-> Append(ls, path),
                         handle |-> [id |-> Len(ls) + 1, strong |-> TRUE]]

\* kind: how the key was last registered; path: with which path; issued: the
\* paths loaded for it since; prev: the path of the never-loaded lazy
\* registration it replaced, remembered until a load* / get* that names the key
\* has returned
NoReg == [kind |-> "none", path |-> "-", prev |-> "-", issued |-> <<>>]
\* no get_mut result in hand
NotSeen == [tag |-> "-", path |-> "-", id |-> 0, strong |-> FALSE]
NoOp == [name |-> "none", keys |-> <<>>, paths |-> <<>>]

\* mixed_asset_manager! has not been invoked
NotBuilt == [stage |-> "none", pairs |-> <<>>]

SeqsUpTo(S, n) == UNION {[1..m -> S] : m \in 0..n}
Batches == {b \in [keys : SeqsUpTo(InsertKeys, MaxPairs), paths : SeqsUpTo(Paths, MaxPairs)] :
              Len(b.keys) = Len(b.paths)}

Init ==
    /\ assets = [k \in Keys |-> NoEntry]
    /\ loads = <<>>
    /\ lock = NoThread
    /\ pc = [t \in Threads |-> "idle"]
    /\ op = [t \in Threads |-> NoOp]
    /\ idx = [t \in Threads |-> 0]
    /\ ret = [t \in Threads |-> <<>>]
    /\ seen = [t \in Threads |-> NotSeen]
    /\ reg = [k \in Keys |-> NoReg]
    /\ poisoned = FALSE
    /\ built = NotBuilt

\* ------------------------------------------------ the work done per item
\* Each yields the new map, the new request log and the handles handed back.

\* variant: the lazy insert asks for the load straight away
InsertItemEager(a, ls, k, p) ==
    LET r == ServerLoad(ls, p)
    IN  [assets |-> [a EXCEPT ![k] = Loaded(r.handle)], loads |-> r.loads, out |-> <<>>]

\* variant: an entry already present is kept (entry(key).or_insert(..))
InsertItemKeep(a, ls, k, p) ==
    [assets |-> IF a[k].tag = "None" THEN [a EXCEPT ![k] = Lazy(p)] ELSE a,
     loads |-> ls, out |-> <<>>]

\* lock.insert(key, AssetHandle::Lazy(path))
InsertItem(a, ls, k, p) ==
    [assets |-> [a EXCEPT ![k] = Lazy(p)], loads |-> ls, out |-> <<>>]

\* variant: the eager insert only records the path
InsertLoadedItemAsLazy(a, ls, k, p) ==
    [assets |-> [a EXCEPT ![k] = Lazy(p)], loads |-> ls, out |-> <<>>]

\* lock.insert(key, AssetHandle::Loaded(self.asset_server.load(path)))
InsertLoadedItem(a, ls, k, p) ==
    LET r == ServerLoad(ls, p)
    IN  [assets |-> [a EXCEPT ![k] = Loaded(r.handle)], loads |-> r.loads, out |-> <<>>]

\* variant: load asks again for an entry that is already Loaded
LoadItemReload(a, ls, k, e) ==
    IF e.tag # "None"
    THEN LET r == ServerLoad(ls, e.path)
         IN  [assets |-> [a EXCEPT ![k] = Loaded(r.handle)], loads |-> r.loads, out |-> <<>>]
    ELSE [assets |-> a, loads |-> ls, out |-> <<>>]

\* variant: load asks for the asset but leaves the entry Lazy
LoadItemNoStore(a, ls, k, e) ==
    IF e.tag = "Lazy"
    THEN [assets |-> a, loads |-> ServerLoad(ls, e.path).loads, out |-> <<>>]
    ELSE [assets |-> a, loads |-> ls, out |-> <<>>]

\* load, for the entry e that get_mut(key) found:
\* match asset { Lazy(path) => *asset = Loaded(load(path)), Loaded(_) => {} }; no entry: nothing
LoadItem(a, ls, k, e) ==
    IF e.tag = "Lazy"
    THEN LET r == ServerLoad(ls, e.path)
         IN  [assets |-> [a EXCEPT ![k] = Loaded(r.handle)], loads |-> r.loads, out |-> <<>>]
    ELSE [assets |-> a, loads |-> ls, out |-> <<>>]

\* variant: get on a Loaded entry writes the weak duplicate back into the map
GetItemDemote(a, ls, k, e) ==
    CASE e.tag = "None" -> [assets |-> a, loads |-> ls, out |-> <<>>]
      [] e.tag = "Lazy" ->
            LET r == ServerLoad(ls, e.path)
            IN  [assets |-> [a EXCEPT ![k] = Loaded(clone_weak(r.handle))],
                 loads |-> r.loads, out |-> <<r.handle>>]
      [] e.tag = "Loaded" ->
            [assets |-> [a EXCEPT ![k] = Loaded(clone_weak(HandleOf(e)))],
             loads |-> ls, out |-> <<clone_weak(HandleOf(e))>>]

\* variant: get takes a Lazy entry out of the map and never puts it back
GetItemRemove(a, ls, k, e) ==
    CASE e.tag = "None" -> [assets |-> a, loads |-> ls, out |-> <<>>]
      [] e.tag = "Lazy" ->
            LET r == ServerLoad(ls, e.path)
            IN  [assets |-> [a EXCEPT ![k] = NoEntry], loads |-> r.loads, out |-> <<r.handle>>]
      [] e.tag = "Loaded" ->
            [assets |-> a, loads |-> ls, out |-> <<clone_weak(HandleOf(e))>>]

\* variant: get on an absent key hands back a default handle (unwrap_or_default)
GetItemOrDefault(a, ls, k, e) ==
    CASE e.tag = "None" -> [assets |-> a, loads |-> ls, out |-> <<[id |-> 0, strong |-> FALSE]>>]
      [] e.tag = "Lazy" ->
            LET r == ServerLoad(ls, e.path)
            IN  [assets |-> [a EXCEPT ![k] = Loaded(clone_weak(r.handle))],
                 loads |-> r.loads, out |-> <<r.handle>>]
      [] e.tag = "Loaded" ->
            [assets |-> a, loads |-> ls, out |-> <<clone_weak(HandleOf(e))>>]

\* variant: get keeps the strong handle in the map and hands out its duplicate
GetItemKeepsStrong(a, ls, k, e) ==
    CASE e.tag = "None" -> [assets |-> a, loads |-> ls, out |-> <<>>]
      [] e.tag = "Lazy" ->
            LET r == ServerLoad(ls, e.path)
            IN  [assets |-> [a EXCEPT ![k] = Loaded(r.handle)],
                 loads |-> r.loads, out |-> <<r.handle>>]
      [] e.tag = "Loaded" ->
            [assets |-> a, loads |-> ls, out |-> <<clone_weak(HandleOf(e))>>]

\* get, for the entry e that get_mut(key) found:
\* .map(|asset| match asset { Lazy(path) => { load; *asset = Loaded(clone_weak); handle },
\*                            Loaded(handle) => handle.clone_weak() }); no entry: None
GetItem(a, ls, k, e) ==
    CASE e.tag = "None" -> [assets |-> a, loads |-> ls, out |-> <<>>]
      [] e.tag = "Lazy" ->
            LET r == ServerLoad(ls, e.path)
            IN  [assets |-> [a EXCEPT ![k] = Loaded(clone_weak(r.handle))],
                 loads |-> r.loads, out |-> <<r.handle>>]
      [] e.tag = "Loaded" ->
            [assets |-> a, loads |-> ls, out |-> <<clone_weak(HandleOf(e))>>]

\* insert_many, per pair: lock.insert(*key, AssetHandle::Lazy(path.to_owned().to_owned()))
InsertManyItem(a, ls, k, p) ==
    [assets |-> [a EXCEPT ![k] = Lazy(p)], loads |-> ls, out |-> <<>>]

\* insert_many_loaded, per pair: lock.insert(*key, AssetHandle::Loaded(self.asset_server.load(..)))
InsertManyLoadedItem(a, ls, k, p) ==
    LET r == ServerLoad(ls, p)
    IN  [assets |-> [a EXCEPT ![k] = Loaded(r.handle)], loads |-> r.loads, out |-> <<>>]

\* variant: load_many asks again for an entry that is already Loaded
LoadManyItemReload(a, ls, k, e) ==
    IF e.tag # "None"
    THEN LET r == ServerLoad(ls, e.path)
         IN  [assets |-> [a EXCEPT ![k] = Loaded(r.handle)], loads |-> r.loads, out |-> <<>>]
    ELSE [assets |-> a, loads |-> ls, out |-> <<>>]

\* load_many, per key, for the entry e that lock.get_mut(key) found
LoadManyItem(a, ls, k, e) ==
    IF e.tag = "Lazy"
    THEN LET r == ServerLoad(ls, e.path)
         IN  [assets |-> [a EXCEPT ![k] = Loaded(r.handle)], loads |-> r.loads, out |-> <<>>]
    ELSE [assets |-> a, loads |-> ls, out |-> <<>>]

\* variant: get_many keeps the strong handle in the map and hands out the weak one
GetManyItemKeepsStrong(a, ls, k, e) ==
    CASE e.tag = "None" -> [assets |-> a, loads |-> ls, out |-> <<>>]
      [] e.tag = "Lazy" ->
            LET r == ServerLoad(ls, e.path)
            IN  [assets |-> [a EXCEPT ![k] = Loaded(r.handle)],
                 loads |-> r.loads, out |-> <<clone_weak(r.handle)>>]
      [] e.tag = "Loaded" ->
            [assets |-> a, loads |-> ls, out |-> <<clone_weak(HandleOf(e))>>]

\* get_many, per key: the get_asset closure, for the entry e that lock.get_mut(key) found
GetManyItem(a, ls, k, e) ==
    CASE e.tag = "None" -> [assets |-> a, loads |-> ls, out |-> <<>>]
      [] e.tag = "Lazy" ->
            LET r == ServerLoad(ls, e.path)
            IN  [assets |-> [a EXCEPT ![k] = Loaded(clone_weak(r.handle))],
                 loads |-> r.loads, out |-> <<r.handle>>]
      [] e.tag = "Loaded" ->
            [assets |-> a, loads |-> ls, out |-> <<clone_weak(HandleOf(e))>>]

\* variant: the handles are collected newest first
CollectRev(acc, out) == out \o acc

\* filter_map(get_asset).collect(): the handles in the order they were produced
Collect(acc, out) == acc \o out

\* ------------------------------------------------------------- bookkeeping
InsertOps == {"insert", "insert_many", "insert_loaded", "insert_many_loaded"}
AccessOps == {"load", "load_many", "get", "get_many"}
GetOps    == {"get", "get_many"}

\* the item of a method, by the method's name
ItemOf(name, a, ls, k, p, e) ==
    CASE name = "insert" -> InsertItem(a, ls, k, p)
      [] name = "insert_many" -> InsertManyItem(a, ls, k, p)
      [] name = "insert_loaded" -> InsertLoadedItem(a, ls, k, p)
      [] name = "insert_many_loaded" -> InsertManyLoadedItem(a, ls, k, p)
      [] name = "load" -> LoadItem(a, ls, k, e)
      [] name = "load_many" -> LoadManyItem(a, ls, k, e)
      [] name = "get" -> GetItem(a, ls, k, e)
      [] name = "get_many" -> GetManyItem(a, ls, k, e)

PathAt(o, i) == IF o.name \in InsertOps THEN o.paths[i] ELSE "-"

\* a method body from its i-th item on, in slice order, with the handles
\* collected so far in out
RECURSIVE RunAcc(_, _, _, _, _)
RunAcc(o, a, ls, out, i) ==
    IF i > Len(o.keys) THEN [assets |-> a, loads |-> ls, out |-> out]
    ELSE LET r == ItemOf(o.name, a, ls, o.keys[i], PathAt(o, i), a[o.keys[i]])
         IN  RunAcc(o, r.assets, r.loads, Collect(out, r.out), i + 1)

\* a whole method body: its items from the i-th on, in slice order
RunFrom(o, a, ls, i) == RunAcc(o, a, ls, <<>>, i)

\* the path of a lazy registration of k that is being replaced before any load
\* was made for it
Replaced(k) == IF reg[k].kind = "lazy" /\ reg[k].issued = <<>> THEN reg[k].path ELSE "-"

\* the requests a step added to the log
NewLoads(ls2) == SubSeq(ls2, Len(loads) + 1, Len(ls2))

\* the argument lists a method accepts
ArgsOf(name) ==
    CASE name \in {"insert", "insert_loaded"} ->
            {[name |-> name, keys |-> <<k>>, paths |-> <<p>>] : k \in InsertKeys, p \in Paths}
      [] name \in {"insert_many", "insert_many_loaded"} ->
            {[name |-> name, keys |-> b.keys, paths |-> b.paths] : b \in Batches}
      [] name \in {"load", "get"} ->
            {[name |-> name, keys |-> <<k>>, paths |-> <<>>] : k \in Keys}
      [] name \in {"load_many", "get_many"} ->
            {[name |-> name, keys |-> ks, paths |-> <<>>] : ks \in SeqsUpTo(Keys, MaxKeys)}

\* ------------------------------------------------------------------- calls
\* A thread calls a method of the manager and blocks in self.assets.write().
\* Nothing reads the method's arguments before the guard is granted, so the
\* method and its arguments are bound where the guard is granted (Enter).
Call(t) ==
    /\ pc[t] = "idle"
    /\ pc' = [pc EXCEPT ![t] = "wait"]
    /\ UNCHANGED <<assets, loads, lock, op, idx, ret, seen, reg, poisoned, built>>

\* variant: the guard is granted whoever holds the lock (a shared read() guard)
AcquireShared(t) ==
    /\ pc[t] = "wait"
    /\ lock' = t
    /\ pc' = [pc EXCEPT ![t] = "held"]

\* variant: the poison flag is ignored (write() with the error unwrapped into
\* its guard)
AcquireIgnoresPoison(t) ==
    /\ pc[t] = "wait"
    /\ lock = NoThread
    /\ lock' = t
    /\ pc' = [pc EXCEPT ![t] = "held"]

\* self.assets.write().unwrap(): granted only while nobody holds the lock, and
\* Ok only while the lock is not poisoned
Acquire(t) ==
    /\ pc[t] = "wait"
    /\ lock = NoThread
    /\ ~poisoned
    /\ lock' = t
    /\ pc' = [pc EXCEPT ![t] = "held"]

\* the method `name` gets the guard and starts on its slice.
\* (A run makes at most MaxLoads load requests.)
Enter(t, name) ==
    /\ Acquire(t)
    /\ \E o \in ArgsOf(name) :
          /\ Len(RunFrom(o, assets, loads, 1).loads) <= MaxLoads
          /\ op' = [op EXCEPT ![t] = o]
    /\ UNCHANGED <<assets, loads, idx, ret, seen, reg, poisoned, built>>

insert(t) == Enter(t, "insert")
insert_many(t) == Enter(t, "insert_many")
insert_loaded(t) == Enter(t, "insert_loaded")
insert_many_loaded(t) == Enter(t, "insert_many_loaded")
load(t) == Enter(t, "load")
load_many(t) == Enter(t, "load_many")
get(t) == Enter(t, "get")
get_many(t) == Enter(t, "get_many")

\* variant: the guard is dropped after each item (a *_many that calls the
\* single-key method in a loop)
GuardPerItem(t) == NoThread

\* `let mut lock = self.assets.write().unwrap()`: the guard lives until the
\* method returns, so the lock has the same holder after an item
GuardAfterItem(t) == lock

\* get_mut(key) for the next item of a load* / get* slice
Peek(t) ==
    /\ pc[t] = "held"
    /\ idx[t] < Len(op[t].keys)
    /\ op[t].name \in AccessOps
    /\ seen[t] = NotSeen
    /\ seen' = [seen EXCEPT ![t] = assets[op[t].keys[idx[t] + 1]]]
    /\ UNCHANGED <<assets, loads, lock, pc, op, idx, ret, reg, poisoned, built>>

\* the next item of the slice, under the guard (hist: whether reg keeps prev)
Step(t, hist) ==
    /\ pc[t] = "held"
    /\ idx[t] < Len(op[t].keys)
    /\ (op[t].name \in AccessOps) => seen[t] # NotSeen
    /\ LET i == idx[t] + 1
           k == op[t].keys[i]
           r == ItemOf(op[t].name, assets, loads, k, PathAt(op[t], i), seen[t])
       IN  /\ assets' = r.assets
           /\ loads' = r.loads
           /\ ret' = [ret EXCEPT ![t] = Collect(ret[t], r.out)]
           /\ idx' = [idx EXCEPT ![t] = i]
           /\ seen' = [seen EXCEPT ![t] = NotSeen]
           /\ reg' = [reg EXCEPT ![k] =
                        IF op[t].name \in {"insert", "insert_many"}
                        THEN [kind |-> "lazy", path |-> op[t].paths[i],
                              prev |-> IF hist THEN Replaced(k) ELSE "-", issued |-> NewLoads(r.loads)]
                        ELSE IF op[t].name \in {"insert_loaded", "insert_many_loaded"}
                        THEN [kind |-> "loaded", path |-> op[t].paths[i],
                              prev |-> IF hist THEN Replaced(k) ELSE "-", issued |-> NewLoads(r.loads)]
                        ELSE IF reg[k].kind = "none" THEN reg[k]
                        ELSE [@ EXCEPT !.issued = @ \o NewLoads(r.loads)]]
    /\ lock' = GuardAfterItem(t)
    /\ UNCHANGED <<pc, op, poisoned, built>>

Item(t) == Step(t, FALSE)
ItemSeq(t) == Step(t, TRUE)

\* variant: the method returns with its guard leaked (mem::forget(lock))
ReleaseKeepsLock(t) ==
    /\ pc[t] = "held"
    /\ idx[t] = Len(op[t].keys)
    /\ lock' = lock
    /\ pc' = [pc EXCEPT ![t] = "idle"]
    /\ op' = [op EXCEPT ![t] = NoOp]
    /\ idx' = [idx EXCEPT ![t] = 0]
    /\ ret' = [ret EXCEPT ![t] = <<>>]
    /\ UNCHANGED <<assets, loads, seen, reg, poisoned, built>>

\* the method returns: the guard is dropped
Release(t) ==
    /\ pc[t] = "held"
    /\ idx[t] = Len(op[t].keys)
    /\ lock' = IF lock = t THEN NoThread ELSE lock
    /\ pc' = [pc EXCEPT ![t] = "idle"]
    /\ op' = [op EXCEPT ![t] = NoOp]
    /\ idx' = [idx EXCEPT ![t] = 0]
    /\ ret' = [ret EXCEPT ![t] = <<>>]
    /\ reg' = [k \in Keys |->
                IF op[t].name \in AccessOps /\ \E i \in 1..Len(op[t].keys) : op[t].keys[i] = k
                THEN [reg[k] EXCEPT !.prev = "-"]
                ELSE reg[k]]
    /\ UNCHANGED <<assets, loads, seen, poisoned, built>>

Next ==
    \E t \in Threads :
        \/ Call(t)
        \/ insert(t)
        \/ insert_many(t)
        \/ insert_loaded(t)
        \/ insert_many_loaded(t)
        \/ load(t)
        \/ load_many(t)
        \/ get(t)
        \/ get_many(t)
        \/ Peek(t)
        \/ Item(t)
        \/ Release(t)

Spec == Init /\ [][Next]_vars

\* One thread using the manager on its own, with the replaced registrations
\* remembered in reg.
NextSeq ==
    \E t \in {"t1"} :
        \/ Call(t)
        \/ insert(t)
        \/ insert_many(t)
        \/ insert_loaded(t)
        \/ insert_many_loaded(t)
        \/ load(t)
        \/ load_many(t)
        \/ get(t)
        \/ get_many(t)
        \/ Peek(t)
        \/ ItemSeq(t)
        \/ Release(t)

SpecSeq == Init /\ [][NextSeq]_vars

\* write() returns to t: the lock is granted to one of its callers
Grant(t) ==
    \/ insert(t)
    \/ insert_many(t)
    \/ insert_loaded(t)
    \/ insert_many_loaded(t)
    \/ load(t)
    \/ load_many(t)
    \/ get(t)
    \/ get_many(t)

\* The same threads with a loader that returns, a scheduler that keeps running
\* a thread that can run, and a lock that does not pass a waiter by for ever.
SpecLive ==
    /\ Spec
    /\ \A t \in Threads :
          /\ WF_vars(Peek(t))
          /\ WF_vars(Item(t))
          /\ WF_vars(Release(t))
          /\ SF_vars(Grant(t))

\* ------------------------------------------------- mixed_asset_manager!
Styles == {"Lazy", "Loaded"}
\* `$load_kind, $key => $path`
TaggedPairs == [style : Styles, key : InsertKeys, path : Paths]

\* the pairs of one style, in the order written
GroupOf(pairs, style) ==
    LET HasStyle(q) == q.style = style
    IN  SelectSeq(pairs, HasStyle)

\* the &[(K, &str)] slice made of a group
SliceOf(group) ==
    [name |-> "insert_many",
     keys |-> [i \in 1..Len(group) |-> group[i].key],
     paths |-> [i \in 1..Len(group) |-> group[i].path]]

\* AssetManager::new, then the match per pair that fills `lazy` and `loaded`
\* (the one-argument Vec::insert read as appending the pair)
MixedNew ==
    /\ built = NotBuilt
    /\ \E pairs \in SeqsUpTo(TaggedPairs, MaxPairs) :
          built' = [stage |-> "grouped", pairs |-> pairs]
    /\ UNCHANGED <<assets, loads, lock, pc, op, idx, ret, seen, reg, poisoned>>

\* the macro body calls insert_many with `group`, which takes the guard
MixedCall(from, to, group) ==
    /\ built.stage = from
    /\ pc["t1"] = "idle"
    /\ lock = NoThread
    /\ ~poisoned
    /\ lock' = "t1"
    /\ pc' = [pc EXCEPT !["t1"] = "held"]
    /\ op' = [op EXCEPT !["t1"] = SliceOf(group)]
    /\ built' = [built EXCEPT !.stage = to]
    /\ UNCHANGED <<assets, loads, idx, ret, seen, reg, poisoned>>

\* asset_manager.insert_many(&lazy)
MixedInsertLazy == MixedCall("grouped", "lazy", GroupOf(built.pairs, "Lazy"))

\* asset_manager.insert_many(&loaded)
MixedInsertLoaded == MixedCall("lazy", "loaded", GroupOf(built.pairs, "Loaded"))

\* the block's value: the manager
MixedReturn ==
    /\ built.stage = "loaded"
    /\ pc["t1"] = "idle"
    /\ built' = [built EXCEPT !.stage = "done"]
    /\ UNCHANGED <<assets, loads, lock, pc, op, idx, ret, seen, reg, poisoned>>

NextMixed ==
    \/ MixedNew
    \/ MixedInsertLazy
    \/ MixedInsertLoaded
    \/ MixedReturn
    \/ Item("t1")
    \/ Release("t1")

SpecMixed == Init /\ [][NextMixed]_vars

\* ---------------------------------------------------------------- panics
\* A thread panics while it holds the guard (in AssetServer::load, or in the
\* key's Hash / Eq): unwinding drops the guard, which poisons the lock.
Panic(t) ==
    /\ pc[t] = "held"
    /\ poisoned' = TRUE
    /\ lock' = IF lock = t THEN NoThread ELSE lock
    /\ pc' = [pc EXCEPT ![t] = "panicked"]
    /\ op' = [op EXCEPT ![t] = NoOp]
    /\ idx' = [idx EXCEPT ![t] = 0]
    /\ ret' = [ret EXCEPT ![t] = <<>>]
    /\ seen' = [seen EXCEPT ![t] = NotSeen]
    /\ UNCHANGED <<assets, loads, reg, built>>

\* write() on the poisoned lock is an Err, and unwrap() panics on it, before
\* the method has touched the map
Fail(t) ==
    /\ pc[t] = "wait"
    /\ lock = NoThread
    /\ poisoned
    /\ pc' = [pc EXCEPT ![t] = "failed"]
    /\ UNCHANGED <<assets, loads, lock, op, idx, ret, seen, reg, poisoned, built>>

\* a caller whose panic was caught calls a method again
Retry(t) ==
    /\ pc[t] \in {"panicked", "failed"}
    /\ pc' = [pc EXCEPT ![t] = "wait"]
    /\ UNCHANGED <<assets, loads, lock, op, idx, ret, seen, reg, poisoned, built>>

NextPanic ==
    \E t \in Threads :
        \/ Call(t)
        \/ insert(t)
        \/ insert_many(t)
        \/ insert_loaded(t)
        \/ insert_many_loaded(t)
        \/ load(t)
        \/ load_many(t)
        \/ get(t)
        \/ get_many(t)
        \/ Peek(t)
        \/ Item(t)
        \/ Release(t)
        \/ Panic(t)
        \/ Fail(t)
        \/ Retry(t)

SpecPanic == Init /\ [][NextPanic]_vars

\* ------------------------------------------------------------ vocabulary
\* thread t is inside method `name`, holding the guard
In(t, name) == pc[t] = "held" /\ op[t].name = name
\* thread t has run the whole body of the single-key method `name` on key k
DoneOn(t, name, k) == In(t, name) /\ op[t].keys = <<k>> /\ idx[t] = 1
\* this step is thread t working off an item that names key k
ItemStepOn(t, k) ==
    /\ pc[t] = "held"
    /\ idx[t] < Len(op[t].keys)
    /\ op[t].keys[idx[t] + 1] = k
    /\ idx'[t] = idx[t] + 1
Registered(k) == assets[k].tag # "None"
IdsOf(hs) == [j \in 1..Len(hs) |-> hs[j].id]

\* ------------------------------------------------------------------- C1
\* C1: for a key registered lazily and not re-inserted since, the loader is
\* called at most once for it, and exactly once as soon as any get(key) has
\* run, however many threads call get and however their calls interleave.
C1_LazyKeyLoadedOnce ==
    \A k \in Keys :
        reg[k].kind = "lazy" =>
            /\ Len(reg[k].issued) <= 1
            /\ \A t \in Threads :
                  DoneOn(t, "get", k) => Len(reg[k].issued) = 1 /\ Len(ret[t]) = 1

\* a second get(k) has returned a duplicate of the handle stored by the first
\* get, while another thread is blocked in a call of its own
C1_Witness ==
    \E t \in Threads, u \in Threads, k \in Keys :
        /\ t # u
        /\ pc[u] = "wait"
        /\ DoneOn(t, "get", k)
        /\ reg[k].kind = "lazy"
        /\ assets[k].tag = "Loaded" /\ ~assets[k].strong
        /\ ret[t] = <<clone_weak(HandleOf(assets[k]))>>
        /\ reg[k].issued = <<reg[k].path>>

\* ------------------------------------------------------------------- C2
\* C2: a key registered by insert_loaded / insert_many_loaded has had exactly
\* one load request, for its path, made by the insert itself; its entry is
\* Loaded with the handle of that request, and no later get or load adds one.
C2_EagerLoadsOnceAtInsert ==
    \A k \in Keys :
        reg[k].kind = "loaded" =>
            /\ reg[k].issued = <<reg[k].path>>
            /\ assets[k].tag = "Loaded"
            /\ assets[k].id \in 1..Len(loads)
            /\ loads[assets[k].id] = reg[k].path

\* get(k) has run on an eagerly registered key and the log still has one request
C2_Witness ==
    \E t \in Threads, k \in Keys :
        /\ DoneOn(t, "get", k)
        /\ reg[k].kind = "loaded"
        /\ Len(ret[t]) = 1
        /\ Len(loads) = 1

\* ------------------------------------------------------------------- C3
\* key k is registered lazily and no load has been made for it
Unloaded(k) == reg[k].kind = "lazy" /\ reg[k].issued = <<>>

\* C3: while a lazily registered key has had no load made for it, its entry
\* is Lazy(path); a lazy insert item makes no load request; and only an item
\* that names the key (of a load/get, or of an insert) ends that condition.
C3_LazyDefersLoad ==
    [][\A k \in Keys :
          /\ Unloaded(k) =>
                /\ assets[k] = Lazy(reg[k].path)
                /\ \/ \E t \in Threads : ItemStepOn(t, k)
                   \/ assets'[k] = assets[k] /\ reg'[k] = reg[k]
          /\ \A t \in Threads :
                (ItemStepOn(t, k) /\ op[t].name \in {"insert", "insert_many"}) =>
                    /\ loads' = loads
                    /\ reg'[k].kind = "lazy" /\ reg'[k].issued = <<>>
                    /\ assets'[k] = Lazy(op[t].paths[idx[t] + 1])
      ]_vars

\* k1 is registered lazily and untouched while a get on k2 has made a load
C3_Witness ==
    \E t \in Threads :
        /\ Unloaded("k1")
        /\ DoneOn(t, "get", "k2")
        /\ Len(ret[t]) = 1 /\ ret[t][1].strong
        /\ Len(loads) = 1

\* ------------------------------------------------------------------- C4
\* C4: a get / get_many item on a Loaded entry makes no load request, leaves
\* the map as it is, and hands back a handle to the stored handle's asset.
C4_GetOnLoadedIsPure ==
    [][\A t \in Threads, k \in Keys :
          (ItemStepOn(t, k) /\ op[t].name \in GetOps /\ assets[k].tag = "Loaded") =>
              /\ loads' = loads
              /\ assets' = assets
              /\ Len(ret'[t]) = Len(ret[t]) + 1
              /\ ret'[t][Len(ret'[t])].id = assets[k].id
      ]_vars

\* get(k) has handed back a weak duplicate of an entry stored by insert_loaded or load
C4_Witness ==
    \E t \in Threads, k \in Keys :
        /\ DoneOn(t, "get", k)
        /\ assets[k].tag = "Loaded" /\ assets[k].strong
        /\ ret[t] = <<clone_weak(HandleOf(assets[k]))>>

\* ------------------------------------------------------------------- C5
\* C5: an insert replaces the key's entry, so a Lazy entry carries the path of
\* the key's latest registration, every load made for the key since is for
\* that path, and a get on a lazily registered key leaves exactly one.
C5_LatestRegistrationWins ==
    \A k \in Keys :
        /\ assets[k].tag = "Lazy" => reg[k].kind = "lazy" /\ assets[k].path = reg[k].path
        /\ \A i \in 1..Len(reg[k].issued) : reg[k].issued[i] = reg[k].path
        /\ \A t \in Threads :
              (DoneOn(t, "get", k) /\ reg[k].kind = "lazy") => reg[k].issued = <<reg[k].path>>

\* insert(k, pA), insert(k, pB), get(k): the only load request is for pB
C5_Witness ==
    \E k \in Keys :
        /\ DoneOn("t1", "get", k)
        /\ reg[k].kind = "lazy" /\ reg[k].prev = "pA" /\ reg[k].path = "pB"
        /\ loads = <<"pB">>
        /\ ret["t1"] = <<[id |-> 1, strong |-> TRUE]>>

\* ------------------------------------------------------------------- C6
\* C6: a Loaded entry stays Loaded with the same asset in every step except
\* an item of insert / insert_many / insert_loaded / insert_many_loaded that
\* names its key.
C6_LoadedIsStable ==
    [][\A k \in Keys :
          assets[k].tag = "Loaded" =>
              \/ assets'[k].tag = "Loaded" /\ assets'[k].id = assets[k].id
              \/ \E t \in Threads : ItemStepOn(t, k) /\ op[t].name \in InsertOps
      ]_vars

\* load(k) has run on an entry that a get had promoted, and left it alone
C6_Witness ==
    \E t \in Threads, k \in Keys :
        /\ DoneOn(t, "load", k)
        /\ assets[k].tag = "Loaded" /\ ~assets[k].strong
        /\ reg[k].issued = <<reg[k].path>>

\* ------------------------------------------------------------------- C7
\* C7: a key that was ever registered keeps an entry, and get(key) on it
\* returns one handle, which refers to a load request made for the path the
\* key is currently registered with.
C7_GetYieldsDispatchedHandle ==
    \A k \in Keys :
        reg[k].kind # "none" =>
            /\ Registered(k)
            /\ \A t \in Threads :
                  DoneOn(t, "get", k) =>
                      /\ Len(ret[t]) = 1
                      /\ ret[t][1].id \in 1..Len(loads)
                      /\ loads[ret[t][1].id] = reg[k].path

\* a get has promoted a lazily registered key after another load had been made
C7_Witness ==
    \E t \in Threads, k \in Keys :
        /\ DoneOn(t, "get", k)
        /\ reg[k].kind = "lazy"
        /\ ret[t] = <<[id |-> 2, strong |-> TRUE]>>
        /\ loads[1] # loads[2]

\* ------------------------------------------------------------------- C8
\* C8: an item of get / get_many / load / load_many on a key without an entry
\* makes no load request, leaves the map as it is and hands back nothing.
C8_AbsentKeyIsNoOp ==
    [][\A t \in Threads, k \in Keys :
          (ItemStepOn(t, k) /\ op[t].name \in AccessOps /\ ~Registered(k)) =>
              /\ assets' = assets
              /\ loads' = loads
              /\ ret'[t] = ret[t]
      ]_vars

\* get("k3") has run on the never-registered key and returned nothing
C8_Witness ==
    \E t \in Threads :
        /\ DoneOn(t, "get", "k3")
        /\ ret[t] = <<>>
        /\ ~Registered("k3")
        /\ Registered("k1")

\* ------------------------------------------------------------------- C9
\* C9: at every point of get_many the handles collected so far are those of
\* the registered keys among the keys already processed, in slice order, and
\* each of those keys is Loaded.
C9_GetManyKeepsRegisteredInOrder ==
    \A t \in Threads :
        In(t, "get_many") =>
            LET hit == SelectSeq(SubSeq(op[t].keys, 1, idx[t]), LAMBDA k : Registered(k))
            IN  /\ IdsOf(ret[t]) = [j \in 1..Len(hit) |-> assets[hit[j]].id]
                /\ \A j \in 1..Len(hit) : assets[hit[j]].tag = "Loaded"

\* get_many([k1, k3, k2]) has run: two handles, k1's then k2's
C9_Witness ==
    \E t \in Threads :
        /\ In(t, "get_many")
        /\ op[t].keys = <<"k1", "k3", "k2">>
        /\ idx[t] = 3
        /\ Len(ret[t]) = 2
        /\ ret[t][1].id = assets["k1"].id
        /\ ret[t][2].id = assets["k2"].id
        /\ assets["k1"].id # assets["k2"].id

\* ------------------------------------------------------------------ C10
\* C10: while a thread is inside insert_many / insert_many_loaded it holds the
\* lock, no other thread is or gets inside a method, reads an entry or works
\* off an item, and the map and the request log change only by its own items.
InBatch(t) == pc[t] = "held" /\ op[t].name \in {"insert_many", "insert_many_loaded"}

C10_BatchHoldsLock ==
    [][\A t \in Threads :
          InBatch(t) =>
              /\ lock = t
              /\ \A u \in Threads \ {t} :
                    /\ pc[u] # "held" /\ pc'[u] # "held"
                    /\ seen'[u] = seen[u] /\ idx'[u] = idx[u] /\ ret'[u] = ret[u]
              /\ (assets' # assets \/ loads' # loads) => idx'[t] = idx[t] + 1
      ]_vars

\* half of insert_many([(k1, _), (k2, _)]) is applied while another thread is blocked
C10_Witness ==
    \E t \in Threads, u \in Threads :
        /\ t # u
        /\ In(t, "insert_many")
        /\ op[t].keys = <<"k1", "k2">>
        /\ idx[t] = 1
        /\ Registered("k1") /\ ~Registered("k2")
        /\ pc[u] = "wait"

\* ------------------------------------------------------------------ C11
\* C11: a load / load_many item on Lazy(path) appends one request for path
\* and stores Loaded with that request's handle; on a Loaded entry it changes
\* nothing.  A get that has run on a lazily registered key whose entry a load
\* promoted returns a duplicate of the stored handle, and the key still has
\* the single request.
C11_LoadPromotesOnce ==
    [][\A t \in Threads, k \in Keys :
          /\ (ItemStepOn(t, k) /\ op[t].name \in {"load", "load_many"}) =>
                /\ assets[k].tag = "Lazy" =>
                      /\ loads' = Append(loads, assets[k].path)
                      /\ assets' = [assets EXCEPT ![k] =
                                       Loaded([id |-> Len(loads) + 1, strong |-> TRUE])]
                /\ assets[k].tag = "Loaded" => loads' = loads /\ assets' = assets
          /\ (DoneOn(t, "get", k) /\ reg[k].kind = "lazy" /\ assets[k].strong) =>
                /\ ret[t] = <<clone_weak(HandleOf(assets[k]))>>
                /\ reg[k].issued = <<reg[k].path>>
                /\ loads[assets[k].id] = reg[k].path
      ]_vars

\* load(k) then get(k) on a lazily registered key: one request, the same asset
C11_Witness ==
    \E t \in Threads, k \in Keys :
        /\ DoneOn(t, "get", k)
        /\ reg[k].kind = "lazy"
        /\ assets[k] = Loaded([id |-> 1, strong |-> TRUE])
        /\ ret[t] = <<[id |-> 1, strong |-> FALSE]>>
        /\ loads = <<reg[k].path>>

\* ------------------------------------------------------------------ C12
\* what the method thread t is in yields if the rest of its body runs from the
\* current map and log with nothing in between
Outcome(t) == RunAcc(op[t], assets, loads, ret[t], idx[t] + 1)

\* C12: calls take effect one at a time in the order in which they get the
\* lock, which lies between their call and their return: at most one thread
\* is inside a method, the map and the log change only by that thread's items,
\* and from the grant of the lock to the return the method's entry, handles
\* and load requests are those of running its whole body at the grant.
C12_Linearizable ==
    [][/\ \A t \in Threads, u \in Threads : (pc[t] = "held" /\ pc[u] = "held") => t = u
       /\ \A t \in Threads :
              (pc[t] = "held" /\ pc'[t] = "held") =>
                  \/ <<assets, loads, op[t], idx[t], ret[t]>>' = <<assets, loads, op[t], idx[t], ret[t]>>
                  \/ Outcome(t)' = Outcome(t)
       /\ (assets' # assets \/ loads' # loads) =>
              \E t \in Threads : pc[t] = "held" /\ lock = t /\ idx'[t] = idx[t] + 1
      ]_vars

\* load(k) has promoted a key while another thread's call is blocked on the lock
C12_Witness ==
    \E t \in Threads, u \in Threads, k \in Keys :
        /\ t # u
        /\ pc[u] = "wait"
        /\ DoneOn(t, "load", k)
        /\ assets[k] = Loaded([id |-> Len(loads), strong |-> TRUE])
        /\ Len(loads) = 2

\* ------------------------------------------------------------------ C16
ManyOps == {"insert_many", "insert_many_loaded", "load_many", "get_many"}
SingleOf(name) ==
    CASE name = "insert_many" -> "insert"
      [] name = "insert_many_loaded" -> "insert_loaded"
      [] name = "load_many" -> "load"
      [] name = "get_many" -> "get"
      [] OTHER -> name

\* what the rest of thread t's slice yields if the single-key method is called
\* on each remaining item in turn, with nothing in between
SinglesOutcome(t) ==
    RunAcc([op[t] EXCEPT !.name = SingleOf(op[t].name)], assets, loads, ret[t], idx[t] + 1)

\* C16: from the grant of the lock to its return, the map, the request log and
\* the handles that a *_many method ends with are those of calling the
\* single-key method on the items of its slice in order, with nothing changed
\* by another thread in between (keys listed twice included).
C16_BatchEqualsSingles ==
    [][\A t \in Threads :
          (pc[t] = "held" /\ op[t].name \in ManyOps /\ pc'[t] = "held") =>
              \/ <<assets, loads, op[t], idx[t], ret[t]>>' = <<assets, loads, op[t], idx[t], ret[t]>>
              \/ SinglesOutcome(t)' = SinglesOutcome(t)
      ]_vars

\* get_many([k, k]) on a Lazy key: one request, the strong handle then a weak duplicate
C16_Witness ==
    \E t \in Threads, k \in Keys :
        /\ In(t, "get_many")
        /\ op[t].keys = <<k, k>>
        /\ idx[t] = 2
        /\ Len(loads) = 1
        /\ ret[t] = <<[id |-> 1, strong |-> TRUE], [id |-> 1, strong |-> FALSE]>>
        /\ assets[k] = Loaded([id |-> 1, strong |-> FALSE])

\* ------------------------------------------------------------------ C14
\* C14: an insert item stores Lazy(path) for its key and nothing else: no
\* load request, the other entries untouched; so on an entry that already is
\* Lazy(path) it changes nothing, and on any other it replaces it.
C14_InsertIsIdempotent ==
    [][\A t \in Threads, k \in Keys :
          (ItemStepOn(t, k) /\ op[t].name = "insert") =>
              LET p == op[t].paths[1]
              IN  /\ assets' = [assets EXCEPT ![k] = Lazy(p)]
                  /\ loads' = loads
                  /\ reg'[k].issued = <<>>
                  /\ assets[k] = Lazy(p) => assets' = assets
      ]_vars

\* insert(k, p) has run a second time with the same arguments
C14_Witness ==
    \E k \in Keys :
        /\ DoneOn("t1", "insert", k)
        /\ reg[k].prev = reg[k].path
        /\ assets[k] = Lazy(reg[k].path)
        /\ loads = <<>>

\* ------------------------------------------------------------------ C15
\* C15: every registration has at most one load request made for it, an eager
\* one exactly one; a step adds at most one request to the log, and the step
\* that adds one is an item that makes it the only request of its key's
\* current registration.
C15_OneLoadPerRegistration ==
    [][/\ \A k \in Keys :
            /\ Len(reg[k].issued) <= 1
            /\ reg[k].kind = "loaded" => reg[k].issued = <<reg[k].path>>
            /\ reg[k].kind = "none" => reg[k].issued = <<>>
       /\ Len(loads') <= Len(loads) + 1
       /\ Len(loads') = Len(loads) + 1 =>
              \E t \in Threads, k \in Keys :
                  /\ ItemStepOn(t, k)
                  /\ reg'[k].issued = <<loads'[Len(loads')]>>
                  /\ \/ op[t].name \in {"insert_loaded", "insert_many_loaded"}
                     \/ op[t].name \in AccessOps /\ reg[k] = [reg'[k] EXCEPT !.issued = <<>>]
      ]_vars

\* k1 has been registered twice and each registration has had its one request
C15_Witness ==
    /\ reg["k1"].kind = "loaded"
    /\ reg["k2"].kind = "none"
    /\ Len(loads) = 2
    /\ assets["k1"] = Loaded([id |-> 2, strong |-> TRUE])

\* ------------------------------------------------------------------ C19
\* C19: a get / get_many item that promotes a Lazy entry stores a weak handle
\* and hands back the strong one; on a Loaded entry it hands back a weak one;
\* load / load_many and insert_loaded / insert_many_loaded store a strong
\* handle.  A weak entry stays as it is until an insert names its key, and no
\* entry holds a strong handle to an asset whose strong handle a get returned.
C19_GetPromotedEntryIsWeak ==
    [][/\ \A t \in Threads, k \in Keys :
             ItemStepOn(t, k) =>
                 /\ (op[t].name \in GetOps /\ assets[k].tag = "Lazy") =>
                        /\ assets'[k].tag = "Loaded" /\ ~assets'[k].strong
                        /\ ret'[t][Len(ret'[t])] = [id |-> assets'[k].id, strong |-> TRUE]
                 /\ (op[t].name \in GetOps /\ assets[k].tag = "Loaded") =>
                        ~ret'[t][Len(ret'[t])].strong
                 /\ (op[t].name \in {"load", "load_many"} /\ assets[k].tag = "Lazy") =>
                        assets'[k].tag = "Loaded" /\ assets'[k].strong
                 /\ op[t].name \in {"insert_loaded", "insert_many_loaded"} =>
                        assets'[k].tag = "Loaded" /\ assets'[k].strong
       /\ \A k \in Keys :
             (assets[k].tag = "Loaded" /\ ~assets[k].strong) =>
                 \/ assets'[k] = assets[k]
                 \/ \E t \in Threads : ItemStepOn(t, k) /\ op[t].name \in InsertOps
       /\ \A t \in Threads : \A j \in 1..Len(ret[t]) :
             ret[t][j].strong =>
                 /\ \A k \in Keys :
                       (assets[k].tag = "Loaded" /\ assets[k].id = ret[t][j].id) => ~assets[k].strong
                 /\ \A u \in Threads : \A i \in 1..Len(ret[u]) :
                       (ret[u][i] = ret[t][j]) => (u = t /\ i = j)
      ]_vars

\* k2 was promoted by this get and is stored weak, next to k1 stored strong
C19_Witness ==
    \E t \in Threads :
        /\ DoneOn(t, "get", "k2")
        /\ ret[t] = <<[id |-> 2, strong |-> TRUE]>>
        /\ assets["k2"] = Loaded([id |-> 2, strong |-> FALSE])
        /\ assets["k1"] = Loaded([id |-> 1, strong |-> TRUE])

\* ------------------------------------------------------------------ C13
\* C13: in the manager mixed_asset_manager! has built, a pair tagged
\* LoadStyle::Loaded (its key named by no other pair) has a Loaded entry whose
\* handle is that of a load request for its path, and a pair tagged
\* LoadStyle::Lazy has the entry Lazy(path) and no load request.
C13_MixedRegistersByStyle ==
    built.stage = "done" =>
        \A i \in 1..Len(built.pairs) :
            LET q == built.pairs[i]
            IN  (\A j \in 1..Len(built.pairs) : built.pairs[j].key = q.key => j = i) =>
                    IF q.style = "Loaded"
                    THEN \E n \in 1..Len(loads) :
                            /\ loads[n] = q.path
                            /\ assets[q.key] = Loaded([id |-> n, strong |-> TRUE])
                    ELSE /\ assets[q.key] = Lazy(q.path)
                         /\ reg[q.key].issued = <<>>

\* ------------------------------------------------------------------ C18
\* C18: the request log grows only in an item step of the thread that holds
\* the lock before and after it; the lock is poisoned only by a thread that
\* panics while holding it; once poisoned it stays poisoned, no thread gets
\* the guard, a waiting thread can only fail, and the map, the request log and
\* what the threads have read from the map never change.
C18_PoisonIsFatal ==
    [][/\ loads' # loads =>
              \E t \in Threads :
                  /\ lock = t /\ lock' = t
                  /\ pc[t] = "held" /\ pc'[t] = "held"
                  /\ idx'[t] = idx[t] + 1
                  /\ op[t].name \in {"insert_loaded", "insert_many_loaded"} \cup AccessOps
       /\ (~poisoned /\ poisoned') =>
              \E t \in Threads : lock = t /\ pc[t] = "held" /\ pc'[t] = "panicked"
       /\ (\E t \in Threads : pc[t] = "held" /\ pc'[t] = "panicked") => poisoned'
       /\ poisoned =>
              /\ poisoned'
              /\ lock = NoThread /\ lock' = NoThread
              /\ assets' = assets /\ loads' = loads /\ seen' = seen /\ ret' = ret
              /\ \A t \in Threads :
                    /\ pc'[t] # "held"
                    /\ (pc[t] = "wait" /\ pc'[t] # "wait") => pc'[t] = "failed"
      ]_vars

\* t1 panicked under the guard after a load request had been made, and t2's
\* call has failed on the poisoned lock; what t1 had stored is still there
C18_Witness ==
    /\ poisoned
    /\ pc["t1"] = "panicked"
    /\ pc["t2"] = "failed"
    /\ Len(loads) = 1
    /\ assets["k1"].tag = "Loaded"
    /\ assets["k2"].tag = "None"

\* ------------------------------------------------------------------ C17
\* C17: a thread gets the lock only from nobody, on its way from waiting to
\* holding; it keeps it for as long as it is in the method and gives it up in
\* the step in which the method returns; a thread outside a method holds no
\* lock.  Whenever a thread is inside a method some thread can take a step, and
\* every call that waits for the lock returns in the end.
C17_EveryCallReturns ==
    /\ [][\A t \in Threads :
            /\ (lock # t /\ lock' = t) => (lock = NoThread /\ pc[t] = "wait" /\ pc'[t] = "held")
            /\ (pc[t] = "wait" /\ pc'[t] # "wait") => (lock' = t /\ pc'[t] = "held")
            /\ pc[t] = "held" => lock = t
            /\ (pc[t] = "held" /\ pc'[t] = "held") => lock' = t
            /\ (pc[t] = "held" /\ pc'[t] # "held") => (pc'[t] = "idle" /\ lock' = NoThread)
            /\ pc[t] = "idle" => lock # t
      ]_vars
    /\ [](\A t \in Threads :
            pc[t] # "idle" => \E u \in Threads : ENABLED (Grant(u) \/ Peek(u) \/ Item(u) \/ Release(u)))
    /\ \A t \in Threads : (pc[t] = "wait") ~> (pc[t] = "idle")

\* t1 waits for the lock while t2 is half way through a batch
C17_Witness ==
    /\ pc["t1"] = "wait"
    /\ lock = "t2"
    /\ idx["t2"] = 1
    /\ Len(op["t2"].keys) = 2
====
